---- MODULE Spec2Model ----
(***************************************************************************)
(* cppdep: the dependency-graph analysis of cppdep/graph.py (class Graph). *)
(*                                                                         *)
(* A Graph holds a networkx DiGraph (self.digraph) and the bookkeeping of  *)
(* analyze(): cycles, cycle2index, node2cycle, node2cd, node2level.        *)
(* analyze() runs __condensation, __transitive_reduction, __calculate_ccd, *)
(* __calculate_levels and __decondensation in that order.  Every loop of   *)
(* the code over a dict or a graph (whose iteration order Python does not  *)
(* fix) is one action per iteration, the item taken being any item left.   *)
(***************************************************************************)
EXTENDS Integers, Sequences, FiniteSets, TLC

(***************************************************************************)
(* Bounds of the model and the node identities the inputs are drawn from.  *)
(* The identities are integers printed in decimal by str(): "10" and "11"  *)
(* sort before "2" and "3".                                                *)
(***************************************************************************)
MaxEdges == 5

InternalIds == {2, 3, 10, 11}

ExternalIds == {5}

(***************************************************************************)
(* Nodes of self.digraph.  An input node is the item itself; the node that *)
(* stands for a condensed cycle is the sub-graph object of its strongly    *)
(* connected component (its member nodes and the edges between them).      *)
(* Both are values of one record shape: id is 0 for a sub-graph object.    *)
(***************************************************************************)
Item(i) == [id |-> i, nodes |-> {}, edges |-> {}]

SubgraphOf(ns, es) == [id |-> 0, nodes |-> ns, edges |-> es]

EmptyGraph == [nodes |-> {}, edges |-> {}]

EmptyMap == [x \in {} |-> 0]

(***************************************************************************)
(* networkx.DiGraph operations used by the code.                           *)
(***************************************************************************)
AddEdge(G, u, v) == [nodes |-> G.nodes \cup {u, v}, edges |-> G.edges \cup {<<u, v>>}]

AddEdges(G, es) ==
  [nodes |-> G.nodes \cup {e[1] : e \in es} \cup {e[2] : e \in es},
   edges |-> G.edges \cup es]

AddNodes(G, ns) == [nodes |-> G.nodes \cup ns, edges |-> G.edges]

RemoveNode(G, n) ==
  [nodes |-> G.nodes \ {n},
   edges |-> {e \in G.edges : e[1] # n /\ e[2] # n}]

RemoveEdges(G, es) == [nodes |-> G.nodes, edges |-> G.edges \ es]

HasNode(G, n) == n \in G.nodes

HasEdge(G, u, v) == <<u, v>> \in G.edges

Successors(G, n) == {e[2] : e \in {f \in G.edges : f[1] = n}}

Predecessors(G, n) == {e[1] : e \in {f \in G.edges : f[2] = n}}

NumberOfSelfloops(G) == Cardinality({e \in G.edges : e[1] = e[2]})

\* The nodes reachable from the nodes of S by zero or more edges.
RECURSIVE ReachFrom(_, _)
ReachFrom(G, S) ==
  LET T == S \cup UNION {Successors(G, n) : n \in S}
  IN  IF T = S THEN S ELSE ReachFrom(G, T)

\* nx.dfs_edges(G, v): the targets of the depth-first tree edges from v are
\* the nodes other than v that v reaches.
DfsTargets(G, v) == ReachFrom(G, {v}) \ {v}

\* nx.is_directed_acyclic_graph
IsDirectedAcyclicGraph(G) ==
  \A n \in G.nodes : n \notin ReachFrom(G, Successors(G, n))

\* nx.strongly_connected_components: the classes of mutual reachability.
StronglyConnectedComponents(G) ==
  {{m \in G.nodes : m \in ReachFrom(G, {n}) /\ n \in ReachFrom(G, {m})} : n \in G.nodes}

\* G.subgraph(c) of networkx 1.x: a new graph of the nodes c and the edges
\* of G between them.  The components hold input nodes only.
StronglyConnectedComponentSubgraphs(G) ==
  {SubgraphOf({n.id : n \in c},
              {<<e[1].id, e[2].id>> : e \in {f \in G.edges : f[1] \in c /\ f[2] \in c}})
     : c \in StronglyConnectedComponents(G)}

\* Iterating a sub-graph object yields its nodes, the input nodes.
NodesOf(sg) == {Item(i) : i \in sg.nodes}

EdgesOf(sg) == {<<Item(e[1]), Item(e[2])>> : e \in sg.edges}

NumberOfNodes(sg) == Cardinality(sg.nodes)

\* The orders in which a for loop may run over the finite set S.
Orders(S) ==
  {f \in [1..Cardinality(S) -> S] : \A x \in S : \E i \in 1..Cardinality(S) : f[i] = x}

(***************************************************************************)
(* str() of a node and the comparison of Python strings.                   *)
(***************************************************************************)
RECURSIVE Str(_)
Str(i) == IF i < 10 THEN <<i>> ELSE Append(Str(i \div 10), i % 10)

RECURSIVE StrLess(_, _)
StrLess(a, b) ==
  IF a = <<>> THEN b # <<>>
  ELSE IF b = <<>> THEN FALSE
  ELSE IF Head(a) < Head(b) THEN TRUE
  ELSE IF Head(a) > Head(b) THEN FALSE
  ELSE StrLess(Tail(a), Tail(b))

MinStr(S) == CHOOSE s \in S : \A t \in S : ~StrLess(t, s)

(***************************************************************************)
(* The state of one Graph instance.                                        *)
(***************************************************************************)
VARIABLES
  original,      \* self.digraph as it was when analyze() was called
  is_external,   \* the ids the is_external predicate holds for
  digraph,       \* self.digraph
  cycles,        \* self.cycles: sub-graph -> (pre_edges, suc_edges)
  cycle2index,   \* self.cycle2index
  node2cycle,    \* self.node2cycle
  node2cd,       \* self.node2cd
  node2level,    \* self.node2level
  descendants,   \* the memo of __calculate_ccd
  reduced,       \* self.digraph as __transitive_reduction left it (history)
  pc,            \* the phase analyze() is in
  todo,          \* the items the loop in progress has not visited yet
  summary,       \* what print_summary printed last
  nodes,         \* the items passed to the constructor
  dependencies,  \* item -> its dependencies as dep_filter yields them
  report,        \* what print_cycles or print_levels printed last
  files,         \* the files write_dot has written: name -> graph
  condensed_digraph, \* self.digraph as __condensation left it (history)
  first,         \* what the first analyze() left, once a second one is called
  key_node,      \* make_dag, layering_dag: the key_node argument
  layers,        \* layering_dag: the list of layers
  layer_no,      \* layering_dag: node -> number of its layer
  redundant_edges \* layering_dag: the edges stripped

\* The state of the functions of the earlier revision (graph.py of 2016).
legacy == <<key_node, layers, layer_no, redundant_edges>>

vars == <<original, is_external, digraph, cycles, cycle2index, node2cycle,
          node2cd, node2level, descendants, reduced, pc, todo, summary,
          nodes, dependencies, report, files, condensed_digraph, first,
          key_node, layers, layer_no, redundant_edges>>


IsExternal(ext, node) == node.id \in ext

(***************************************************************************)
(* __condensation, lines 86-98: the body of `for node in subgraph`, run    *)
(* for the member nodes order[i], order[i+1], ...  st holds the digraph,   *)
(* node2cycle and the two edge lists (their order is never read: sets).    *)
(* A failed assertion stops the loop with what was done so far.            *)
(***************************************************************************)
RECURSIVE CondenseNodes(_, _, _, _)
CondenseNodes(st, sg, order, i) ==
  IF i > Cardinality(DOMAIN order) THEN st
  ELSE
    LET node == order[i] IN
    IF node \in DOMAIN st.node2cycle \/ ~HasNode(st.digraph, node)
    THEN [st EXCEPT !.raised = TRUE]
    ELSE
      LET pre == {p \in Predecessors(st.digraph, node) : p \notin NodesOf(sg)}
          G1  == AddEdges(st.digraph, {<<p, sg>> : p \in pre})
          suc == {s \in Successors(G1, node) : s \notin NodesOf(sg)}
          G2  == AddEdges(G1, {<<sg, s>> : s \in suc})
      IN  CondenseNodes(
            [digraph    |-> RemoveNode(G2, node),
             node2cycle |-> (node :> sg) @@ st.node2cycle,
             pre_edges  |-> st.pre_edges \cup {<<p, node>> : p \in pre},
             suc_edges  |-> st.suc_edges \cup {<<node, s>> : s \in suc},
             raised     |-> FALSE],
            sg, order, i + 1)

\* A plausible slip: components of two nodes are skipped as well.
NotACycleUpToTwo(sg) == NumberOfNodes(sg) <= 2

\* __condensation, lines 82-83: a component of one node is not a cycle.
NotACycle(sg) == NumberOfNodes(sg) = 1

\* A plausible slip: the two lists stored in the wrong order.
CondenseSubgraphSwapped(G, n2c, cyc, sg, order) ==
  LET st == CondenseNodes([digraph |-> G, node2cycle |-> n2c, pre_edges |-> {},
                           suc_edges |-> {}, raised |-> FALSE], sg, order, 1)
  IN  IF st.raised \/ sg \in DOMAIN cyc
      THEN [digraph |-> st.digraph, node2cycle |-> st.node2cycle, cycles |-> cyc,
            raised |-> TRUE]
      ELSE [digraph |-> st.digraph, node2cycle |-> st.node2cycle,
            cycles |-> (sg :> [pre_edges |-> st.suc_edges, suc_edges |-> st.pre_edges]) @@ cyc,
            raised |-> FALSE]

\* __condensation, lines 84-100, for one sub-graph of two or more nodes.
CondenseSubgraph(G, n2c, cyc, sg, order) ==
  LET st == CondenseNodes([digraph |-> G, node2cycle |-> n2c, pre_edges |-> {},
                           suc_edges |-> {}, raised |-> FALSE], sg, order, 1)
  IN  IF st.raised \/ sg \in DOMAIN cyc
      THEN [digraph |-> st.digraph, node2cycle |-> st.node2cycle, cycles |-> cyc,
            raised |-> TRUE]
      ELSE [digraph |-> st.digraph, node2cycle |-> st.node2cycle,
            cycles |-> (sg :> [pre_edges |-> st.pre_edges, suc_edges |-> st.suc_edges]) @@ cyc,
            raised |-> FALSE]

(***************************************************************************)
(* __condensation, lines 102-104: the cycles sorted by the smallest str()  *)
(* of their members, numbered in that order.  sorted() is stable: `order`  *)
(* is the order in which the dict self.cycles is iterated.                 *)
(***************************************************************************)
\* A plausible slip: the members compared as numbers, not as strings.
cycle_order_numeric(sg) == <<CHOOSE u \in sg.nodes : \A v \in sg.nodes : u <= v>>

cycle_order(sg) == MinStr({Str(u) : u \in sg.nodes})

SortedInsert(s, x) ==
  LET k == Cardinality({j \in 1..Len(s) : ~StrLess(cycle_order(x), cycle_order(s[j]))})
  IN  SubSeq(s, 1, k) \o <<x>> \o SubSeq(s, k + 1, Len(s))

RECURSIVE SortedCycles(_, _)
SortedCycles(order, n) ==
  IF n = 0 THEN <<>> ELSE SortedInsert(SortedCycles(order, n - 1), order[n])

\* A plausible slip: the cycles numbered in the order the dict yields them.
AssignIndexUnsorted(c2i, order) ==
  [c \in DOMAIN c2i \cup {order[j] : j \in DOMAIN order} |->
     IF \E j \in DOMAIN order : order[j] = c
     THEN (CHOOSE j \in DOMAIN order : order[j] = c) - 1
     ELSE c2i[c]]

AssignIndex(c2i, order) ==
  LET sorted == SortedCycles(order, Cardinality(DOMAIN order))
  IN  [c \in DOMAIN c2i \cup {sorted[j] : j \in 1..Len(sorted)} |->
         IF \E j \in 1..Len(sorted) : sorted[j] = c
         THEN (CHOOSE j \in 1..Len(sorted) : sorted[j] = c) - 1
         ELSE c2i[c]]

(***************************************************************************)
(* __transitive_reduction, lines 71-75, for one node u.                    *)
(***************************************************************************)
\* A plausible slip: the pairs given to remove_edges_from the wrong way round
\* (networkx ignores an edge that is not there).
ReduceNodeReversed(G, u) ==
  LET transitive_vertex == UNION {DfsTargets(G, v) : v \in Successors(G, u)}
  IN  RemoveEdges(G, {<<x, u>> : x \in transitive_vertex})

\* A plausible slip: only the successors of the successors are looked at,
\* not everything beyond them.
ReduceNodeOneStep(G, u) ==
  LET transitive_vertex == UNION {Successors(G, v) : v \in Successors(G, u)}
  IN  RemoveEdges(G, {<<u, x>> : x \in transitive_vertex})

ReduceNode(G, u) ==
  LET transitive_vertex == UNION {DfsTargets(G, v) : v \in Successors(G, u)}
  IN  RemoveEdges(G, {<<u, x>> : x \in transitive_vertex})

(***************************************************************************)
(* __calculate_ccd: _get_descendants with its memo (the memo after the     *)
(* call is returned; the set asked for is memo[node]), and _get_cd.        *)
(***************************************************************************)
RECURSIVE GetDescendants(_, _, _)
RECURSIVE DescendantsLoop(_, _, _, _)
GetDescendants(G, memo, node) ==
  IF node \in DOMAIN memo THEN memo
  ELSE LET r == DescendantsLoop(G, memo, Successors(G, node), {})
       IN  (node :> r.node_descendants) @@ r.memo

\* A plausible slip: the descendants of a successor are not added.
RECURSIVE DescendantsLoopDirect(_, _, _, _)
DescendantsLoopDirect(G, memo, vs, acc) ==
  IF vs = {} THEN [memo |-> memo, node_descendants |-> acc]
  ELSE LET v  == CHOOSE x \in vs : TRUE
           m1 == GetDescendants(G, memo, v)
       IN  DescendantsLoopDirect(G, m1, vs \ {v}, acc \cup {v})

DescendantsLoop(G, memo, vs, acc) ==
  IF vs = {} THEN [memo |-> memo, node_descendants |-> acc]
  ELSE LET v  == CHOOSE x \in vs : TRUE
           m1 == GetDescendants(G, memo, v)
       IN  DescendantsLoop(G, m1, vs \ {v}, acc \cup {v} \cup m1[v])

\* A plausible slip: an external node counted like any other node.
GetCdExternalCounts(ext, cyc, node) ==
  IF node \notin DOMAIN cyc THEN 1 ELSE NumberOfNodes(node)

GetCd(ext, cyc, node) ==
  IF IsExternal(ext, node) THEN 0
  ELSE IF node \notin DOMAIN cyc THEN 1 ELSE NumberOfNodes(node)

RECURSIVE SumCd(_, _, _)
SumCd(ext, cyc, ns) ==
  IF ns = {} THEN 0
  ELSE LET n == CHOOSE x \in ns : TRUE
       IN  GetCd(ext, cyc, n) + SumCd(ext, cyc, ns \ {n})

\* lines 162-165: the cd of one node, given the memo after _get_descendants.
NodeCd(ext, cyc, memo, node) == GetCd(ext, cyc, node) + SumCd(ext, cyc, memo[node])

(***************************************************************************)
(* __calculate_levels: _get_level with self.node2level as its memo.        *)
(***************************************************************************)
RECURSIVE GetLevel(_, _, _, _, _)
RECURSIVE LevelLoop(_, _, _, _, _, _)
\* A plausible slip (the levels of the earlier revisions): a cycle counted
\* as one level whatever its size.
GetLevelUnweighted(G, ext, cyc, memo, node) ==
  IF node \in DOMAIN memo THEN memo
  ELSE LET own == IF IsExternal(ext, node) THEN 0 ELSE 1
           r   == LevelLoop(G, ext, cyc, memo, Successors(G, node), 0)
       IN  (node :> own + r.max) @@ r.memo

GetLevel(G, ext, cyc, memo, node) ==
  IF node \in DOMAIN memo THEN memo
  ELSE LET own == IF node \notin DOMAIN cyc
                  THEN (IF IsExternal(ext, node) THEN 0 ELSE 1)
                  ELSE NumberOfNodes(node)
           r   == LevelLoop(G, ext, cyc, memo, Successors(G, node), 0)
       IN  (node :> own + r.max) @@ r.memo

LevelLoop(G, ext, cyc, memo, vs, best) ==
  IF vs = {} THEN [memo |-> memo, max |-> best]
  ELSE LET v  == CHOOSE x \in vs : TRUE
           m1 == GetLevel(G, ext, cyc, memo, v)
       IN  LevelLoop(G, ext, cyc, m1, vs \ {v}, IF m1[v] > best THEN m1[v] ELSE best)

(***************************************************************************)
(* __decondensation, lines 110-123, for one entry of self.cycles.          *)
(***************************************************************************)
DecondenseSubgraph(G, n2c, sg, entry) ==
  LET G1 == AddEdges(G, {e \in entry.pre_edges :
                HasEdge(G, e[1], sg)
                \/ (e[1] \in DOMAIN n2c /\ HasEdge(G, n2c[e[1]], sg))})
      G2 == AddEdges(G1, {e \in entry.suc_edges :
                HasEdge(G1, sg, e[2])
                \/ (e[2] \in DOMAIN n2c /\ HasEdge(G1, sg, n2c[e[2]]))})
      G3 == AddEdges(AddNodes(G2, NodesOf(sg)), EdgesOf(sg))
  IN  RemoveNode(G3, sg)


(***************************************************************************)
(* print_summary, lines 249-266.  The floats are kept to the two decimals  *)
(* that are printed, as hundredths; Log2E4[n] is math.log(n, 2) in units   *)
(* of 10^-4.  A division by zero or max() of nothing raises.               *)
(***************************************************************************)
Log2E4 == <<0, 10000, 15849, 20000, 23219, 25849, 28073, 30000,
            31699, 33219, 34594, 35849, 37004, 38073, 39068, 40000>>

Hundredths(num, den) == (200 * num + den) \div (2 * den)

\* A plausible slip: a cycle's CD charged once, not once per member.
RECURSIVE SummaryCcdOncePerCycle(_, _)
SummaryCcdOncePerCycle(n2cd, cyc) ==
  IF DOMAIN n2cd = {} THEN 0
  ELSE LET node == CHOOSE x \in DOMAIN n2cd : TRUE
       IN  n2cd[node] + SummaryCcdOncePerCycle([x \in DOMAIN n2cd \ {node} |-> n2cd[x]], cyc)

RECURSIVE SummaryCcd(_, _)
SummaryCcd(n2cd, cyc) ==
  IF DOMAIN n2cd = {} THEN 0
  ELSE LET node == CHOOSE x \in DOMAIN n2cd : TRUE
           rest == [x \in DOMAIN n2cd \ {node} |-> n2cd[x]]
       IN  (IF node \in DOMAIN cyc THEN NumberOfNodes(node) * n2cd[node] ELSE n2cd[node])
           + SummaryCcd(rest, cyc)

\* A plausible slip: every node of the digraph counted.
NumNodesAll(G, ext) == Cardinality(G.nodes)

NumNodes(G, ext) == Cardinality({x \in G.nodes : ~IsExternal(ext, x)})

MaxLevel(n2l) == CHOOSE l \in {n2l[x] : x \in DOMAIN n2l} : \A y \in DOMAIN n2l : n2l[y] <= l

NoSummary ==
  [printed |-> FALSE, raised |-> FALSE, components |-> 0, cycles |-> 0, levels |-> 0,
   ccd |-> 0, accd |-> 0, nccd |-> 0]

SummaryOf(G, ext, cyc, n2cd, n2l) ==
  LET ccd       == SummaryCcd(n2cd, cyc)
      num_nodes == NumNodes(G, ext)
      ccd_btree == (num_nodes + 1) * Log2E4[num_nodes + 1] - num_nodes * 10000
  IN  IF num_nodes = 0 \/ DOMAIN n2l = {}
      THEN [NoSummary EXCEPT !.raised = TRUE]
      ELSE [printed |-> TRUE, raised |-> FALSE, components |-> num_nodes,
            cycles |-> Cardinality(DOMAIN cyc), levels |-> MaxLevel(n2l),
            ccd |-> ccd, accd |-> Hundredths(ccd, num_nodes),
            nccd |-> Hundredths(ccd * 10000, ccd_btree)]

(***************************************************************************)
(* Graph.__init__: the graphs the constructor builds from items 'nodes'    *)
(* with their dependencies.  Every item is a node; a dependency is a node  *)
(* with an edge to it; an external node is never an item, so it has no     *)
(* successors.                                                             *)
(***************************************************************************)
GraphOf(ids, es) ==
  AddEdges([nodes |-> {Item(i) : i \in ids}, edges |-> {}],
           {<<Item(e[1]), Item(e[2])>> : e \in es})

AllowedEdges == {e \in InternalIds \X (InternalIds \cup ExternalIds) : e[1] # e[2]}

InputGraphs ==
  {GraphOf(InternalIds, es) : es \in {E \in SUBSET AllowedEdges : Cardinality(E) <= MaxEdges}}

Constructed(G, ext) ==
  /\ original = G
  /\ is_external = ext
  /\ digraph = G
  /\ cycles = EmptyMap
  /\ cycle2index = EmptyMap
  /\ node2cycle = EmptyMap
  /\ node2cd = EmptyMap
  /\ node2level = EmptyMap
  /\ descendants = EmptyMap
  /\ reduced = EmptyGraph
  /\ pc = "constructed"
  /\ todo = {}
  /\ summary = NoSummary

\* Two cycles {2,3} and {10,11} and a fifth item 7, with any of the edges
\* from the first cycle to the second, to 7, and from 7 to the second.
TwoCycleGraphs ==
  {GraphOf(InternalIds \cup {7}, {<<2, 3>>, <<3, 2>>, <<10, 11>>, <<11, 10>>} \cup es) :
     es \in SUBSET {<<2, 10>>, <<3, 10>>, <<3, 11>>, <<2, 7>>, <<3, 7>>, <<7, 10>>, <<7, 11>>}}

\* analyze() has not been called a second time.
NoRun == [called |-> FALSE]

\* key_node is None.
NoKey == [i \in {} |-> 0]

\* make_dag and layering_dag are not part of the class Graph.
NoLegacy ==
  /\ key_node = NoKey
  /\ layers = <<>>
  /\ layer_no = EmptyMap
  /\ redundant_edges = {}

\* Nothing has been printed or written yet.
NoReport == [kind |-> "none", arg |-> "none", raised |-> FALSE, lines |-> <<>>]

\* The constructor's arguments that give the graph G: every non-external
\* node is an item, its dependencies are its successors.
BuiltFrom(G, ext) ==
  /\ nodes = {x \in G.nodes : ~IsExternal(ext, x)}
  /\ dependencies = [x \in G.nodes |-> Successors(G, x)]
  /\ report = NoReport
  /\ files = EmptyMap
  /\ condensed_digraph = EmptyGraph
  /\ first = NoRun
  /\ NoLegacy

Init ==
  \E G \in InputGraphs \cup TwoCycleGraphs :
    Constructed(G, ExternalIds) /\ BuiltFrom(G, ExternalIds)

(***************************************************************************)
(* The 12-node fixture of test/test_graph.py: Graph([]) and the edges      *)
(* added to its digraph; no node is external.                              *)
(***************************************************************************)
FixtureEdges ==
  {<<1, 2>>, <<2, 4>>, <<2, 6>>, <<6, 2>>, <<6, 7>>, <<7, 6>>,
   <<1, 3>>, <<1, 5>>, <<3, 4>>, <<3, 5>>, <<3, 8>>, <<8, 9>>, <<9, 3>>,
   <<10, 11>>, <<10, 12>>, <<11, 12>>, <<12, 11>>}

InitFixture ==
  /\ Constructed(GraphOf({}, FixtureEdges), {})
  /\ nodes = {}
  /\ dependencies = EmptyMap
  /\ report = NoReport
  /\ files = EmptyMap
  /\ condensed_digraph = EmptyGraph
  /\ first = NoRun
  /\ NoLegacy

(***************************************************************************)
(* Graph.__init__ step by step, lines 51-64: the constructor is handed the *)
(* items 'nodes'; an item may be external, may list itself among its       *)
(* dependencies, and may depend on an item that was not handed over.       *)
(***************************************************************************)
MaxDeps == 3

BuildIds == {2, 10, 11} \cup ExternalIds

\* The arguments of one construction: up to MaxDeps dependencies in all,
\* each the dependency of an item that is handed over.
Arguments ==
  UNION {
    {[nodes |-> {Item(i) : i \in ns},
      dependencies |-> [x \in {Item(i) : i \in BuildIds} |->
                          {Item(e[2]) : e \in {f \in es : Item(f[1]) = x}}]] :
       es \in {E \in SUBSET (ns \X BuildIds) : Cardinality(E) <= MaxDeps}} :
    ns \in SUBSET BuildIds}

\* The arguments that give the graph G.
ArgumentsOf(G, ext) ==
  [nodes |-> {x \in G.nodes : ~IsExternal(ext, x)},
   dependencies |-> [x \in G.nodes |-> Successors(G, x)]]

\* Lines 51-58: the empty Graph before the loop over the items.
Unbuilt(args, ext) ==
  /\ nodes = args.nodes
  /\ dependencies = args.dependencies
  /\ is_external = ext
  /\ digraph = EmptyGraph
  /\ original = EmptyGraph
  /\ cycles = EmptyMap
  /\ cycle2index = EmptyMap
  /\ node2cycle = EmptyMap
  /\ node2cd = EmptyMap
  /\ node2level = EmptyMap
  /\ descendants = EmptyMap
  /\ reduced = EmptyGraph
  /\ pc = "new"
  /\ todo = args.nodes
  /\ summary = NoSummary
  /\ report = NoReport
  /\ files = EmptyMap
  /\ condensed_digraph = EmptyGraph
  /\ first = NoRun
  /\ NoLegacy

InitBuild ==
  \E args \in Arguments \cup {ArgumentsOf(G, ExternalIds) : G \in TwoCycleGraphs} :
    Unbuilt(args, ExternalIds)

\* A plausible slip: the dependency is not checked against the item.
RECURSIVE AddDependenciesUnchecked(_, _, _, _)
AddDependenciesUnchecked(G, node, order, i) ==
  IF i > Len(order) THEN [digraph |-> G, raised |-> FALSE]
  ELSE AddDependenciesUnchecked(AddEdge(G, node, order[i]), node, order, i + 1)

\* Lines 62-64 for one item: its dependencies in the order the filter yields
\* them, up to the first that is the item itself.
RECURSIVE AddDependencies(_, _, _, _)
AddDependencies(G, node, order, i) ==
  IF i > Len(order) THEN [digraph |-> G, raised |-> FALSE]
  ELSE IF node = order[i] THEN [digraph |-> G, raised |-> TRUE]
  ELSE AddDependencies(AddEdge(G, node, order[i]), node, order, i + 1)

\* A plausible slip: the item is not checked against is_external.
ConstructNodeUnchecked ==
  /\ pc = "new"
  /\ \E node \in todo :
       \E order \in Orders(dependencies[node]) :
         LET r == AddDependencies(AddNodes(digraph, {node}), node, order, 1)
         IN  /\ digraph' = r.digraph
             /\ pc' = IF r.raised THEN "not_built" ELSE pc
             /\ todo' = IF r.raised THEN {} ELSE todo \ {node}
  /\ UNCHANGED <<legacy, condensed_digraph, first, nodes, dependencies, report, files, reduced, original, is_external,
                 cycles, cycle2index, node2cycle, node2cd, node2level, descendants,
                 summary>>

\* Lines 59-64: one iteration of `for node in nodes`.
ConstructNode ==
  /\ pc = "new"
  /\ \E node \in todo :
       IF IsExternal(is_external, node)
       THEN /\ pc' = "not_built"
            /\ todo' = {}
            /\ digraph' = digraph
       ELSE \E order \in Orders(dependencies[node]) :
              LET r == AddDependencies(AddNodes(digraph, {node}), node, order, 1)
              IN  /\ digraph' = r.digraph
                  /\ pc' = IF r.raised THEN "not_built" ELSE pc
                  /\ todo' = IF r.raised THEN {} ELSE todo \ {node}
  /\ UNCHANGED <<legacy, condensed_digraph, first, nodes, dependencies, report, files, reduced, original, is_external,
                 cycles, cycle2index, node2cycle, node2cd, node2level, descendants,
                 summary>>

\* The constructor returns; `original` is the graph analyze() will be given.
ConstructEnd ==
  /\ pc = "new"
  /\ todo = {}
  /\ pc' = "constructed"
  /\ original' = digraph
  /\ UNCHANGED <<legacy, condensed_digraph, first, nodes, dependencies, report, files, reduced, is_external, digraph,
                 cycles, cycle2index, node2cycle, node2cd, node2level, descendants,
                 todo, summary>>

(***************************************************************************)
(* analyze()                                                               *)
(***************************************************************************)
\* A plausible slip: the graph is condensed before it is checked.
AnalyzeBeginUnchecked ==
  /\ pc = "constructed"
  /\ pc' = "condensation"
  /\ todo' = StronglyConnectedComponentSubgraphs(digraph)
  /\ UNCHANGED <<legacy, condensed_digraph, first, nodes, dependencies, report, files,
                 reduced, original, is_external, digraph, cycles, cycle2index, node2cycle,
                 node2cd, node2level, descendants, summary>>

\* line 131, and lines 79-81: list(subgraphs) is taken before any change.
AnalyzeBegin ==
  /\ pc = "constructed"
  /\ IF NumberOfSelfloops(digraph) = 0
     THEN /\ pc' = "condensation"
          /\ todo' = StronglyConnectedComponentSubgraphs(digraph)
     ELSE /\ pc' = "raised"
          /\ todo' = {}
  /\ UNCHANGED <<legacy, condensed_digraph, first, nodes, dependencies, report, files,
                 reduced, original, is_external, digraph, cycles, cycle2index, node2cycle,
                 node2cd, node2level, descendants, summary>>

\* lines 81-100: one iteration of `for subgraph in list(subgraphs)`.
Condense ==
  /\ pc = "condensation"
  /\ \E sg \in todo :
       IF NotACycle(sg)
       THEN /\ todo' = todo \ {sg}
            /\ UNCHANGED <<digraph, node2cycle, cycles, pc>>
       ELSE \E order \in Orders(NodesOf(sg)) :
              LET r == CondenseSubgraph(digraph, node2cycle, cycles, sg, order)
              IN  /\ digraph' = r.digraph
                  /\ node2cycle' = r.node2cycle
                  /\ cycles' = r.cycles
                  /\ pc' = IF r.raised THEN "raised" ELSE pc
                  /\ todo' = IF r.raised THEN {} ELSE todo \ {sg}
  /\ UNCHANGED <<legacy, condensed_digraph, first, nodes, dependencies, report, files,
                 reduced, original, is_external, cycle2index, node2cd, node2level,
                 descendants, summary>>

\* lines 102-104, then line 69 of __transitive_reduction.
CondenseEnd ==
  /\ pc = "condensation"
  /\ todo = {}
  /\ \E order \in Orders(DOMAIN cycles) :
       cycle2index' = AssignIndex(cycle2index, order)
  /\ IF IsDirectedAcyclicGraph(digraph)
     THEN /\ pc' = "transitive_reduction"
          /\ todo' = digraph.nodes
     ELSE /\ pc' = "raised"
          /\ todo' = {}
  /\ condensed_digraph' = digraph
  /\ UNCHANGED <<legacy, first, nodes, dependencies, report, files,
                 reduced, original, is_external, digraph, cycles, node2cycle, node2cd,
                 node2level, descendants, summary>>

\* lines 70-75: one iteration of `for u in self.digraph`.
Reduce ==
  /\ pc = "transitive_reduction"
  /\ \E u \in todo :
       /\ digraph' = ReduceNode(digraph, u)
       /\ todo' = todo \ {u}
  /\ UNCHANGED <<legacy, condensed_digraph, first, nodes, dependencies, report, files,
                 reduced, original, is_external, cycles, cycle2index, node2cycle, node2cd,
                 node2level, descendants, pc, summary>>

\* line 143: __calculate_ccd starts with an empty memo.
ReduceEnd ==
  /\ pc = "transitive_reduction"
  /\ todo = {}
  /\ pc' = "calculate_ccd"
  /\ todo' = digraph.nodes
  /\ descendants' = EmptyMap
  /\ reduced' = digraph
  /\ UNCHANGED <<legacy, condensed_digraph, first, nodes, dependencies, report, files,
                 original, is_external, digraph, cycles, cycle2index, node2cycle,
                 node2cd, node2level, summary>>

\* lines 161-165: one iteration of `for node in self.digraph`.
CalculateCcd ==
  /\ pc = "calculate_ccd"
  /\ \E node \in todo :
       LET memo == GetDescendants(digraph, descendants, node)
       IN  /\ descendants' = memo
           /\ node2cd' = (node :> NodeCd(is_external, cycles, memo, node)) @@ node2cd
           /\ todo' = todo \ {node}
  /\ UNCHANGED <<legacy, condensed_digraph, first, nodes, dependencies, report, files,
                 reduced, original, is_external, digraph, cycles, cycle2index, node2cycle,
                 node2level, pc, summary>>

CalculateCcdEnd ==
  /\ pc = "calculate_ccd"
  /\ todo = {}
  /\ pc' = "calculate_levels"
  /\ todo' = digraph.nodes
  /\ UNCHANGED <<legacy, condensed_digraph, first, nodes, dependencies, report, files,
                 reduced, original, is_external, digraph, cycles, cycle2index, node2cycle,
                 node2cd, node2level, descendants, summary>>

\* lines 177-178: one iteration of `for node in self.digraph`.
CalculateLevels ==
  /\ pc = "calculate_levels"
  /\ \E node \in todo :
       /\ node2level' = GetLevel(digraph, is_external, cycles, node2level, node)
       /\ todo' = todo \ {node}
  /\ UNCHANGED <<legacy, condensed_digraph, first, nodes, dependencies, report, files,
                 reduced, original, is_external, digraph, cycles, cycle2index, node2cycle,
                 node2cd, descendants, pc, summary>>

CalculateLevelsEnd ==
  /\ pc = "calculate_levels"
  /\ todo = {}
  /\ pc' = "decondensation"
  /\ todo' = DOMAIN cycles
  /\ UNCHANGED <<legacy, condensed_digraph, first, nodes, dependencies, report, files,
                 reduced, original, is_external, digraph, cycles, cycle2index, node2cycle,
                 node2cd, node2level, descendants, summary>>

\* lines 109-123: one iteration of `for subgraph, ... in self.cycles.items()`.
Decondense ==
  /\ pc = "decondensation"
  /\ \E sg \in todo :
       IF HasNode(digraph, sg)
       THEN /\ digraph' = DecondenseSubgraph(digraph, node2cycle, sg, cycles[sg])
            /\ todo' = todo \ {sg}
            /\ pc' = pc
       ELSE /\ pc' = "raised"
            /\ todo' = {}
            /\ digraph' = digraph
  /\ UNCHANGED <<legacy, condensed_digraph, first, nodes, dependencies, report, files,
                 reduced, original, is_external, cycles, cycle2index, node2cycle, node2cd,
                 node2level, descendants, summary>>

\* analyze() returns.
DecondenseEnd ==
  /\ pc = "decondensation"
  /\ todo = {}
  /\ pc' = "done"
  /\ UNCHANGED <<legacy, condensed_digraph, first, nodes, dependencies, report, files,
                 reduced, original, is_external, digraph, cycles, cycle2index, node2cycle,
                 node2cd, node2level, descendants, todo, summary>>

\* print_summary after analyze() has returned.
PrintSummary ==
  /\ pc = "done"
  /\ summary' = SummaryOf(digraph, is_external, cycles, node2cd, node2level)
  /\ UNCHANGED <<legacy, condensed_digraph, first, nodes, dependencies, report, files,
                 reduced, original, is_external, digraph, cycles, cycle2index, node2cycle,
                 node2cd, node2level, descendants, pc, todo>>

\* get_level, lines 182-184.
get_level(n2c, n2l, node) ==
  IF node \in DOMAIN n2c THEN n2l[n2c[node]] ELSE n2l[node]

(***************************************************************************)
(* The reports.  A printed line is a record: what kind of line it is and   *)
(* the numbers and names the format string is filled with.  sorted() is    *)
(* given keys that are pairwise distinct, so its result is the one         *)
(* sequence in ascending order.                                            *)
(***************************************************************************)
SortedBy(S, less) ==
  [i \in 1..Cardinality(S) |-> CHOOSE x \in S : Cardinality({y \in S : <<y, x>> \in less}) = i - 1]

Line(tag, index, number, node, members) ==
  [tag |-> tag, index |-> index, number |-> number, node |-> node, members |-> members]

\* str(edge[0]) + '->' + str(edge[1]), line 196: '-' sorts before the
\* digits and '>' after them.
EdgeStr(e) == Str(e[1]) \o <<-3, 14>> \o Str(e[2])

RECURSIVE Concat(_)
Concat(ss) == IF ss = <<>> THEN <<>> ELSE Head(ss) \o Concat(Tail(ss))

\* sorted(self.cycle2index.items(), key=lambda x: x[1]), line 192.
CyclesByIndex(c2i) ==
  LET less == {p \in (DOMAIN c2i) \X (DOMAIN c2i) : c2i[p[1]] < c2i[p[2]]}
  IN  SortedBy(DOMAIN c2i, less)

\* print_cycles, lines 188-198.
PrintCyclesLines(cyc, c2i) ==
  LET IdLess(S)   == {p \in S \X S : StrLess(Str(p[1]), Str(p[2]))}
      EdgeLess(S) == {p \in S \X S : StrLess(EdgeStr(p[1]), EdgeStr(p[2]))}
      by_index    == CyclesByIndex(c2i)
      OneCycle(c) ==
        <<Line("cycle nodes", c2i[c], Cardinality(c.nodes), 0,
               SortedBy(c.nodes, IdLess(c.nodes))),
          Line("cycle edges", c2i[c], Cardinality(c.edges), 0,
               SortedBy(c.edges, EdgeLess(c.edges))),
          Line("", -1, 0, 0, <<>>)>>
  IN  IF DOMAIN cyc = {} THEN <<>>
      ELSE <<Line("=", -1, 0, 0, <<>>),
             Line("cycles detected", -1, Cardinality(DOMAIN cyc), 0, <<>>)>>
           \o Concat([i \in 1..Len(by_index) |-> OneCycle(by_index[i])])

\* A plausible slip: the index map is emptied as it is listed.
PrintCyclesConsuming ==
  /\ pc = "done"
  /\ report' = [kind |-> "cycles", arg |-> "none", raised |-> FALSE,
                lines |-> PrintCyclesLines(cycles, cycle2index)]
  /\ cycle2index' = EmptyMap
  /\ UNCHANGED <<legacy, condensed_digraph, first, nodes, dependencies, files, reduced, original, is_external, digraph,
                 cycles, node2cycle, node2cd, node2level, descendants,
                 pc, todo, summary>>

PrintCycles ==
  /\ pc = "done"
  /\ report' = [kind |-> "cycles", arg |-> "none", raised |-> FALSE,
                lines |-> PrintCyclesLines(cycles, cycle2index)]
  /\ UNCHANGED <<legacy, condensed_digraph, first, nodes, dependencies, files, reduced, original, is_external, digraph,
                 cycles, cycle2index, node2cycle, node2cd, node2level, descendants,
                 pc, todo, summary>>

\* A plausible slip: the entries of a level ordered as numbers.
StabilizeNumeric(cyc, node) ==
  IF node \in DOMAIN cyc
  THEN <<CHOOSE u \in node.nodes : \A v \in node.nodes : u <= v>>
  ELSE <<node.id>>

\* _stabilize, lines 212-216.
Stabilize(cyc, node) ==
  IF node \in DOMAIN cyc THEN MinStr({Str(x) : x \in node.nodes}) ELSE Str(node.id)

\* _print_dependencies, lines 218-230; reduced_dependencies is "None",
\* "True" or "False".
PrintDependencies(G, ext, deps, n2c, n2l, c2i, reduced_dependencies, node) ==
  IF reduced_dependencies = "None" \/ IsExternal(ext, node) THEN <<>>
  ELSE LET vs == IF reduced_dependencies = "True" THEN Successors(G, node) ELSE deps[node]
           less ==
             {p \in vs \X vs :
                \/ get_level(n2c, n2l, p[1]) < get_level(n2c, n2l, p[2])
                \/ /\ get_level(n2c, n2l, p[1]) = get_level(n2c, n2l, p[2])
                   /\ StrLess(Str(p[1].id), Str(p[2].id))}
           sorted == SortedBy(vs, less)
       IN  [i \in 1..Len(sorted) |->
              LET v == sorted[i]
              IN  IF v \in DOMAIN n2c
                  THEN Line("dependency", c2i[n2c[v]], n2l[n2c[v]], v.id, <<>>)
                  ELSE Line("dependency", -1, n2l[v], v.id, <<>>)]

\* Lines 238-245: the lines for one entry of node2level.
PrintEntry(G, ext, deps, cyc, n2c, n2l, c2i, reduced_dependencies, node) ==
  IF node \in DOMAIN cyc
  THEN LET less   == {p \in NodesOf(node) \X NodesOf(node) :
                        StrLess(Str(p[1].id), Str(p[2].id))}
           sorted == SortedBy(NodesOf(node), less)
       IN  Concat([i \in 1..Len(sorted) |->
                     <<Line("node", c2i[node], 0, sorted[i].id, <<>>)>>
                     \o PrintDependencies(G, ext, deps, n2c, n2l, c2i,
                                          reduced_dependencies, sorted[i])])
  ELSE <<Line("node", -1, 0, node.id, <<>>)>>
       \o PrintDependencies(G, ext, deps, n2c, n2l, c2i, reduced_dependencies, node)

\* Lines 232-245: the entries in sorted order, a header for every level
\* from the last printed one up to the entry's.
RECURSIVE PrintLevelsLoop(_, _, _, _, _, _, _, _, _, _, _)
PrintLevelsLoop(G, ext, deps, cyc, n2c, n2l, c2i, reduced_dependencies, sorted, i, level_num) ==
  IF i > Len(sorted) THEN <<>>
  ELSE LET node  == sorted[i]
           level == n2l[node]
       IN  [k \in 1..(level - level_num) |-> Line("level", -1, level_num + k, 0, <<>>)]
           \o PrintEntry(G, ext, deps, cyc, n2c, n2l, c2i, reduced_dependencies, node)
           \o PrintLevelsLoop(G, ext, deps, cyc, n2c, n2l, c2i, reduced_dependencies,
                              sorted, i + 1, IF level > level_num THEN level ELSE level_num)

\* print_levels, lines 208-245: max() of no level raises after the rule
\* has been printed.
PrintLevelsReport(G, ext, deps, cyc, n2c, n2l, c2i, reduced_dependencies) ==
  LET less ==
        {p \in (DOMAIN n2l) \X (DOMAIN n2l) :
           \/ n2l[p[1]] < n2l[p[2]]
           \/ /\ n2l[p[1]] = n2l[p[2]]
              /\ StrLess(Stabilize(cyc, p[1]), Stabilize(cyc, p[2]))}
      sorted == SortedBy(DOMAIN n2l, less)
  IN  IF DOMAIN n2l = {}
      THEN [kind |-> "levels", arg |-> reduced_dependencies, raised |-> TRUE,
            lines |-> <<Line("=", -1, 0, 0, <<>>)>>]
      ELSE [kind |-> "levels", arg |-> reduced_dependencies, raised |-> FALSE,
            lines |-> <<Line("=", -1, 0, 0, <<>>),
                        Line("level(s)", -1, MaxLevel(n2l), 0, <<>>)>>
                      \o PrintLevelsLoop(G, ext, deps, cyc, n2c, n2l, c2i,
                                         reduced_dependencies, sorted, 1, -1)]

PrintLevels ==
  /\ pc = "done"
  /\ \E reduced_dependencies \in {"None", "True", "False"} :
       report' = PrintLevelsReport(digraph, is_external, dependencies, cycles, node2cycle,
                                   node2level, cycle2index, reduced_dependencies)
  /\ UNCHANGED <<legacy, condensed_digraph, first, nodes, dependencies, files, reduced, original, is_external, digraph,
                 cycles, cycle2index, node2cycle, node2cd, node2level, descendants,
                 pc, todo, summary>>

\* A plausible slip: the file named as the final graph of three.
DotNameFinal(file_basename) == <<file_basename, "_final.dot">>

\* write_dot, line 274: the name of the file.
DotName(file_basename) == <<file_basename, ".dot">>

\* write_dot, lines 268-274: the digraph as it is now goes into the file.
WriteDot ==
  /\ pc = "done"
  /\ files' = (DotName("B") :> digraph) @@ files
  /\ UNCHANGED <<legacy, condensed_digraph, first, nodes, dependencies, report, reduced, original, is_external, digraph,
                 cycles, cycle2index, node2cycle, node2cd, node2level, descendants,
                 pc, todo, summary>>

Next ==
  \/ AnalyzeBegin
  \/ Condense
  \/ CondenseEnd
  \/ Reduce
  \/ ReduceEnd
  \/ CalculateCcd
  \/ CalculateCcdEnd
  \/ CalculateLevels
  \/ CalculateLevelsEnd
  \/ Decondense
  \/ DecondenseEnd
  \/ PrintSummary

Spec == Init /\ [][Next]_vars

SpecFixture == InitFixture /\ [][Next]_vars

\* The constructor, then analyze() and the reports in any order.
NextBuild ==
  \/ ConstructNode
  \/ ConstructEnd
  \/ Next
  \/ PrintCycles
  \/ PrintLevels
  \/ WriteDot

SpecBuild == InitBuild /\ [][NextBuild]_vars

(***************************************************************************)
(* A Graph whose digraph is filled directly, as the fixture of             *)
(* test/test_graph.py does: Graph([]), then add_edge on its digraph.       *)
(* Nothing keeps a self-loop out of a digraph filled this way.             *)
(***************************************************************************)
MaxDirectEdges == 3

DirectEdges == AllowedEdges \cup {<<i, i>> : i \in InternalIds}

DirectGraphs ==
  {GraphOf({}, es) : es \in {E \in SUBSET DirectEdges : Cardinality(E) <= MaxDirectEdges}}

InitDirect ==
  \E G \in DirectGraphs :
    /\ Constructed(G, ExternalIds)
    /\ nodes = {}
    /\ dependencies = EmptyMap
    /\ report = NoReport
    /\ files = EmptyMap
    /\ condensed_digraph = EmptyGraph
    /\ first = NoRun
    /\ NoLegacy

(***************************************************************************)
(* analyze(), lines 131-132, called again on a Graph on which it has       *)
(* returned.  The five dicts are created by __init__ (lines 52-56) and     *)
(* analyze() resets none of them: the second call starts from what the     *)
(* first left.  `first` keeps the results of the first call.               *)
(***************************************************************************)
AnalyzeAgain ==
  /\ pc = "done"
  /\ first = NoRun
  /\ first' = [called |-> TRUE, digraph |-> digraph, cycles |-> cycles,
               cycle2index |-> cycle2index, node2cycle |-> node2cycle,
               node2cd |-> node2cd, node2level |-> node2level]
  /\ IF NumberOfSelfloops(digraph) = 0
     THEN /\ pc' = "condensation"
          /\ todo' = StronglyConnectedComponentSubgraphs(digraph)
     ELSE /\ pc' = "raised"
          /\ todo' = {}
  /\ UNCHANGED <<legacy, condensed_digraph, nodes, dependencies, report, files,
                 reduced, original, is_external, digraph, cycles, cycle2index, node2cycle,
                 node2cd, node2level, descendants, summary>>

NextTwice ==
  \/ Next
  \/ AnalyzeAgain

SpecTwice == InitDirect /\ [][NextTwice]_vars

(***************************************************************************)
(* The functions of the earlier revision, src/graph.py: make_dag and       *)
(* layering_dag work on a networkx DiGraph handed to them and change it in *)
(* place.  networkx 1.x: nodes(), predecessors() and successors() return   *)
(* lists, taken before the graph is changed.                               *)
(***************************************************************************)
MaxLegacyEdges == 4

\* The key_node arguments: none, the id, the id descending, and a key that
\* is the same for several nodes.
KeyNodes ==
  {NoKey, [i \in InternalIds |-> i], [i \in InternalIds |-> 0 - i],
   [i \in InternalIds |-> i % 2]}

\* Any directed graph on the items, self-loops included.
LegacyGraphs ==
  {GraphOf(InternalIds, es) :
     es \in {E \in SUBSET (InternalIds \X InternalIds) : Cardinality(E) <= MaxLegacyEdges}}

\* The value None of node2cycle.
None == Item(-1)

SelfloopEdges(G) == {e \in G.edges : e[1] = e[2]}

\* is_reachable, lines 49-59: the breadth-first loop.
RECURSIVE IsReachableLoop(_, _, _, _)
IsReachableLoop(G, node_target, reachable_nodes, current_nodes) ==
  IF current_nodes = {} THEN FALSE
  ELSE LET next_nodes == UNION {Successors(G, node) : node \in current_nodes}
       IN  IF node_target \in next_nodes THEN TRUE
           ELSE IsReachableLoop(G, node_target, reachable_nodes \cup next_nodes,
                                next_nodes \ reachable_nodes)

\* A plausible slip: only a direct successor counts as reachable.
is_reachable_direct(G, node_parent, node_target) ==
  node_parent # node_target /\ node_target \in Successors(G, node_parent)

\* is_reachable, lines 35-61.
is_reachable(G, node_parent, node_target) ==
  IF node_parent = node_target THEN FALSE
  ELSE IsReachableLoop(G, node_target, {node_parent}, {node_parent})

\* A plausible slip: the first member is kept whatever the key.
MinNodesAny(sg, key) == NodesOf(sg)

\* make_dag, lines 87-90: min(nodes, key=key_node) is a member with the
\* least key, the first of them in the list; without a key it is nodes[0],
\* whichever member the list starts with.
MinNodes(sg, key) ==
  IF key = NoKey THEN NodesOf(sg)
  ELSE {n \in NodesOf(sg) : \A m \in NodesOf(sg) : key[n.id] <= key[m.id]}

\* make_dag, lines 81-85: the components of two or more nodes.
CyclicSubgraphs(G) == {sg \in StronglyConnectedComponentSubgraphs(G) : ~NotACycle(sg)}

\* make_dag, lines 81-93: the ways to pick the kept node of every cycle.
MinNodeChoices(G, key) ==
  {f \in [CyclicSubgraphs(G) -> G.nodes] : \A sg \in CyclicSubgraphs(G) : f[sg] \in MinNodes(sg, key)}

\* make_dag, lines 100-117: the body of `for node in nodes`.
CollapseNode(G, min_node, others, node) ==
  LET pre_nodes == Predecessors(G, node)
      suc_nodes == Successors(G, node)
      G1 == AddEdges(G, {<<p, min_node>> :
                           p \in {q \in pre_nodes : q # min_node /\ q \notin others}})
      G2 == AddEdges(G1, {<<min_node, x>> :
                            x \in {y \in suc_nodes : y # min_node /\ y \notin others}})
  IN  RemoveNode(G2, node)

\* make_dag, lines 95-117: the members that are not kept, in the order the
\* two loops come to them.
RECURSIVE CollapseNodes(_, _, _, _, _)
CollapseNodes(G, cyc, n2c, order, i) ==
  IF i > Cardinality(DOMAIN order) THEN G
  ELSE LET node     == order[i]
           min_node == n2c[node]
       IN  CollapseNodes(
             CollapseNode(G, min_node, NodesOf(cyc[min_node]) \ {min_node}, node),
             cyc, n2c, order, i + 1)

\* The loop over a cycle's members is finished before the next cycle.
CycleByCycle(order, n2c) ==
  \A i, j, k \in DOMAIN order :
    (i < j /\ j < k /\ n2c[order[i]] = n2c[order[k]]) => n2c[order[j]] = n2c[order[i]]

\* make_dag, lines 75-118.  mins is the kept node of every cycle.
make_dag(G, mins) ==
  LET G0  == RemoveEdges(G, SelfloopEdges(G))
      cyc == [m \in {mins[sg] : sg \in DOMAIN mins} |->
                CHOOSE sg \in DOMAIN mins : mins[sg] = m]
      n2c == [n \in G.nodes |->
                IF \E sg \in DOMAIN mins : n \in NodesOf(sg)
                THEN mins[CHOOSE sg \in DOMAIN mins : n \in NodesOf(sg)]
                ELSE None]
  IN  [digraph |-> G0, cycles |-> cyc, node2cycle |-> n2c]

\* The graphs, keys and state make_dag may be called with.
InitLegacy ==
  \E G \in LegacyGraphs : \E key \in KeyNodes :
    /\ original = G
    /\ digraph = G
    /\ key_node = key
    /\ layers = <<>>
    /\ layer_no = EmptyMap
    /\ redundant_edges = {}
    /\ is_external = {}
    /\ cycles = EmptyMap
    /\ cycle2index = EmptyMap
    /\ node2cycle = EmptyMap
    /\ node2cd = EmptyMap
    /\ node2level = EmptyMap
    /\ descendants = EmptyMap
    /\ reduced = EmptyGraph
    /\ pc = "legacy"
    /\ todo = {}
    /\ summary = NoSummary
    /\ nodes = {}
    /\ dependencies = EmptyMap
    /\ report = NoReport
    /\ files = EmptyMap
    /\ condensed_digraph = EmptyGraph
    /\ first = NoRun

\* make_dag(digraph, key_node).
MakeDag ==
  /\ pc = "legacy"
  /\ \E mins \in MinNodeChoices(RemoveEdges(digraph, SelfloopEdges(digraph)), key_node) :
       LET r == make_dag(digraph, mins)
       IN  /\ cycles' = r.cycles
           /\ node2cycle' = r.node2cycle
           /\ \E order \in Orders({n \in DOMAIN r.node2cycle :
                                     r.node2cycle[n] \notin {None, n}}) :
                /\ CycleByCycle(order, r.node2cycle)
                /\ digraph' = CollapseNodes(r.digraph, r.cycles, r.node2cycle, order, 1)
  /\ pc' = "dag"
  /\ UNCHANGED <<original, key_node, layers, layer_no, redundant_edges, is_external,
                 cycle2index, node2cd, node2level, descendants, reduced, todo, summary,
                 nodes, dependencies, report, files, condensed_digraph, first>>

\* layering_dag, line 129.
out_degree(G) == [n \in G.nodes |-> Cardinality(Successors(G, n))]

\* layering_dag, lines 137-151: the `while nodes_layer` loop.  The order a
\* layer is sorted into by key_node is not kept: a layer is a set.
RECURSIVE LayeringLoop(_, _, _, _, _, _)
LayeringLoop(G, out_degrees, nodes_layer, layer_no_, layers_, cur_layer_no) ==
  IF nodes_layer = {} THEN [layers |-> layers_, layer_no |-> layer_no_]
  ELSE LET updated == [n \in DOMAIN layer_no_ \cup nodes_layer |->
                         IF n \in nodes_layer THEN cur_layer_no ELSE layer_no_[n]]
           nodes_layer_next == UNION {Predecessors(G, node) : node \in nodes_layer}
           decremented == [p \in DOMAIN out_degrees |->
                             out_degrees[p] - Cardinality(Successors(G, p) \cap nodes_layer)]
       IN  LayeringLoop(G, decremented,
                        {node \in nodes_layer_next : decremented[node] <= 0},
                        updated, Append(layers_, nodes_layer), cur_layer_no + 1)

\* layering_dag, lines 153-165: the edges in the order the three loops come
\* to them.
RECURSIVE StripEdges(_, _, _, _, _)
StripEdges(G, layer_no_, redundant, order, k) ==
  IF k > Cardinality(DOMAIN order) THEN [digraph |-> G, redundant_edges |-> redundant]
  ELSE LET node     == order[k][1]
           suc_node == order[k][2]
           G1       == RemoveEdges(G, {order[k]})
       IN  IF layer_no_[suc_node] = layer_no_[node] - 1
           THEN StripEdges(G, layer_no_, redundant, order, k + 1)
           ELSE IF is_reachable(G1, node, suc_node)
           THEN StripEdges(G1, layer_no_, redundant \cup {order[k]}, order, k + 1)
           ELSE StripEdges(AddEdges(G1, {order[k]}), layer_no_, redundant, order, k + 1)

\* Lines 154-156: layer after layer from layer 1, a layer in its sorted
\* order when there is a key, node after node.
LayerByLayer(order, layer_no_, key) ==
  \A i, j \in DOMAIN order :
    i < j =>
      /\ layer_no_[order[i][1]] <= layer_no_[order[j][1]]
      /\ (key # NoKey /\ layer_no_[order[i][1]] = layer_no_[order[j][1]])
           => key[order[i][1].id] <= key[order[j][1].id]
      /\ \A k \in DOMAIN order :
           (j < k /\ order[i][1] = order[k][1]) => order[j][1] = order[i][1]

\* layering_dag(digraph, key_node), on a graph without cycles (its stated
\* assumption); condensed_digraph keeps the graph as it is handed over.
LayeringDag ==
  /\ pc = "dag"
  /\ IsDirectedAcyclicGraph(digraph)
  /\ LET out_degrees == out_degree(digraph)
         r == LayeringLoop(digraph, out_degrees,
                           {k \in DOMAIN out_degrees : out_degrees[k] = 0},
                           EmptyMap, <<>>, 0)
     IN  /\ layers' = r.layers
         /\ layer_no' = r.layer_no
         /\ \E order \in Orders({e \in digraph.edges : r.layer_no[e[1]] >= 1}) :
              /\ LayerByLayer(order, r.layer_no, key_node)
              /\ LET s == StripEdges(digraph, r.layer_no, {}, order, 1)
                 IN  /\ digraph' = s.digraph
                     /\ redundant_edges' = s.redundant_edges
  /\ condensed_digraph' = digraph
  /\ pc' = "layered"
  /\ UNCHANGED <<original, key_node, is_external, cycles, node2cycle,
                 cycle2index, node2cd, node2level, descendants, reduced, todo, summary,
                 nodes, dependencies, report, files, first>>

NextLegacy ==
  \/ MakeDag
  \/ LayeringDag

SpecLegacy == InitLegacy /\ [][NextLegacy]_vars


(***************************************************************************)
(* analyze(), lines 131-136, run from a freshly constructed Graph in one   *)
(* fixed iteration order of every loop: the state it ends in.  The actions *)
(* above take the iterations in every order; this is one of those runs.    *)
(***************************************************************************)
RECURSIVE CondensationLoop(_, _)
CondensationLoop(st, subgraphs) ==
  IF subgraphs = {} \/ st.raised THEN st
  ELSE LET sg == CHOOSE x \in subgraphs : TRUE
       IN  IF NotACycle(sg) THEN CondensationLoop(st, subgraphs \ {sg})
           ELSE CondensationLoop(
                  CondenseSubgraph(st.digraph, st.node2cycle, st.cycles, sg,
                                   CHOOSE order \in Orders(NodesOf(sg)) : TRUE),
                  subgraphs \ {sg})

RECURSIVE ReductionLoop(_, _)
ReductionLoop(G, us) ==
  IF us = {} THEN G
  ELSE LET u == CHOOSE x \in us : TRUE
       IN  ReductionLoop(ReduceNode(G, u), us \ {u})

RECURSIVE CcdLoop(_, _, _, _, _, _)
CcdLoop(G, ext, cyc, memo, n2cd, ns) ==
  IF ns = {} THEN n2cd
  ELSE LET node == CHOOSE x \in ns : TRUE
           m1   == GetDescendants(G, memo, node)
       IN  CcdLoop(G, ext, cyc, m1, (node :> NodeCd(ext, cyc, m1, node)) @@ n2cd,
                   ns \ {node})

RECURSIVE LevelsLoop(_, _, _, _, _)
LevelsLoop(G, ext, cyc, n2l, ns) ==
  IF ns = {} THEN n2l
  ELSE LET node == CHOOSE x \in ns : TRUE
       IN  LevelsLoop(G, ext, cyc, GetLevel(G, ext, cyc, n2l, node), ns \ {node})

RECURSIVE DecondensationLoop(_, _, _, _)
DecondensationLoop(G, n2c, cyc, sgs) ==
  IF sgs = {} THEN [digraph |-> G, raised |-> FALSE]
  ELSE LET sg == CHOOSE x \in sgs : TRUE
       IN  IF ~HasNode(G, sg) THEN [digraph |-> G, raised |-> TRUE]
           ELSE DecondensationLoop(DecondenseSubgraph(G, n2c, sg, cyc[sg]), n2c, cyc,
                                   sgs \ {sg})

Analyze(G, ext) ==
  LET c   == CondensationLoop([digraph |-> G, node2cycle |-> EmptyMap,
                               cycles |-> EmptyMap, raised |-> FALSE],
                              StronglyConnectedComponentSubgraphs(G))
      c2i == AssignIndex(EmptyMap, CHOOSE order \in Orders(DOMAIN c.cycles) : TRUE)
      R   == ReductionLoop(c.digraph, c.digraph.nodes)
      cd  == CcdLoop(R, ext, c.cycles, EmptyMap, EmptyMap, R.nodes)
      lv  == LevelsLoop(R, ext, c.cycles, EmptyMap, R.nodes)
      d   == DecondensationLoop(R, c.node2cycle, c.cycles, DOMAIN c.cycles)
  IN  [pc |-> IF d.raised THEN "raised" ELSE "done",
       digraph |-> d.digraph, cycles |-> c.cycles, cycle2index |-> c2i,
       node2cycle |-> c.node2cycle, node2cd |-> cd, node2level |-> lv,
       reduced |-> R]

\* analyze() has ended: it returned, or an assertion of it failed.
Ended == pc \in {"done", "raised"}


(***************************************************************************)
(* Properties.                                                             *)
(***************************************************************************)
Reachable(G, u, v) == HasNode(G, u) /\ v \in ReachFrom(G, {u})

MutuallyReachable(G, u, v) == Reachable(G, u, v) /\ Reachable(G, v, u)

\* C1: for every pair of input nodes (u, v), v is reachable from u in the
\* graph before analyze() if and only if v is reachable from u in the graph
\* that analyze() leaves in Graph.digraph.
C1_ReachabilityPreserved ==
  Ended => \A u, v \in original.nodes :
             Reachable(original, u, v) <=> Reachable(digraph, u, v)

\* C2: for any input graph analyze() returns, and then the node set of
\* Graph.digraph is the node set of the input graph exactly and every edge
\* of the final graph was an edge of the input graph.
C2_RoundTrip ==
  Ended => /\ pc = "done"
           /\ digraph.nodes = original.nodes
           /\ digraph.edges \subseteq original.edges

\* C3: after analyze(), two distinct input nodes belong to the same entry of
\* Graph.cycles if and only if they are mutually reachable in the input
\* graph; every cycle has at least 2 nodes, the cycles are pairwise disjoint,
\* and each sub-graph holds exactly the input edges between its members.
C3_CyclesAreTheComponents ==
  Ended =>
    /\ \A u, v \in original.nodes :
         u # v => ((\E c \in DOMAIN cycles : u \in NodesOf(c) /\ v \in NodesOf(c))
                   <=> MutuallyReachable(original, u, v))
    /\ \A c \in DOMAIN cycles :
         /\ NumberOfNodes(c) >= 2
         /\ NodesOf(c) \subseteq original.nodes
         /\ EdgesOf(c) = {e \in original.edges : e[1] \in NodesOf(c) /\ e[2] \in NodesOf(c)}
         /\ \A n \in NodesOf(c) : n \in DOMAIN node2cycle /\ node2cycle[n] = c
    /\ \A c, d \in DOMAIN cycles : c # d => c.nodes \cap d.nodes = {}

\* Two cycles next to each other (an input edge from one into the other),
\* both reported by an analyze() that returned.
C3_Witness ==
  /\ pc = "done"
  /\ \E c, d \in DOMAIN cycles :
       /\ c # d
       /\ \E e \in original.edges : e[1] \in NodesOf(c) /\ e[2] \in NodesOf(d)

\* C4: whatever the order in which the components, the nodes and the cycles
\* map are iterated, analyze() ends the same way with the same cycle
\* indices, the same level and CD for every node, and print_summary prints
\* the same CCD, N, ACCD and NCCD: those of the run in one fixed order.
C4_Determinism ==
  Ended =>
    LET r == Analyze(original, is_external)
    IN  /\ pc = r.pc
        /\ cycle2index = r.cycle2index
        /\ node2cycle = r.node2cycle
        /\ node2level = r.node2level
        /\ node2cd = r.node2cd
        /\ (summary.printed \/ summary.raised) =>
             summary = SummaryOf(r.digraph, is_external, r.cycles, r.node2cd, r.node2level)

C4_Witness ==
  /\ summary.printed
  /\ Cardinality(DOMAIN cycles) = 2
  /\ \E c, d \in DOMAIN cycles : HasEdge(reduced, c, d)


\* C5: for the 12-node fixture analyze() returns with exactly the 3 cycles
\* {2,6,7}, {3,8,9}, {11,12}; the final graph is the input graph minus
\* exactly the edge 1->5; levels are {4,5} at 1, {11,12} at 2, {10} at 3,
\* {2,6,7} and {3,8,9} at 4, {1} at 5, none at 0; the summary gives
\* Components 12, Cycles 3, Levels 5, CCD 45, ACCD 3.75, NCCD 1.25.
FixtureLevel(i) ==
  IF i \in {4, 5} THEN 1
  ELSE IF i \in {11, 12} THEN 2
  ELSE IF i = 10 THEN 3
  ELSE IF i \in {2, 6, 7, 3, 8, 9} THEN 4
  ELSE 5

C5_Fixture ==
  Ended =>
    /\ pc = "done"
    /\ {c.nodes : c \in DOMAIN cycles} = {{2, 6, 7}, {3, 8, 9}, {11, 12}}
    /\ Cardinality(DOMAIN cycles) = 3
    /\ digraph = GraphOf({}, FixtureEdges \ {<<1, 5>>})
    /\ digraph.nodes = {Item(i) : i \in 1..12}
    /\ \A n \in digraph.nodes :
         /\ get_level(node2cycle, node2level, n) = FixtureLevel(n.id)
         /\ get_level(node2cycle, node2level, n) # 0
    /\ summary.printed =>
         summary = [printed |-> TRUE, raised |-> FALSE, components |-> 12, cycles |-> 3,
                    levels |-> 5, ccd |-> 45, accd |-> 375, nccd |-> 125]

C5_Witness == summary.printed /\ original = GraphOf({}, FixtureEdges)

\* The node of the condensed graph that stands for an input node.
CondensedOf(n) == IF n \in DOMAIN node2cycle THEN node2cycle[n] ELSE n

\* C6: the edge set of the final graph left by analyze() is the input edge
\* set minus exactly the edges removed by the reducer: no edge is invented,
\* every input edge between two members of one cycle is present, and an
\* input edge between different condensed nodes is present if and only if
\* the edge between those condensed nodes exists after reduction.
C6_FinalEdges ==
  Ended =>
    /\ digraph.edges \subseteq original.edges
    /\ \A e \in original.edges :
         IF CondensedOf(e[1]) = CondensedOf(e[2])
         THEN e \in digraph.edges
         ELSE e \in digraph.edges <=> HasEdge(reduced, CondensedOf(e[1]), CondensedOf(e[2]))

\* C7: for any input graph G and two distinct non-external nodes u, v of G,
\* the CCD computed for G with the additional edge v -> u is greater than or
\* equal to the CCD computed for G.  The state is the analysis of the graph
\* with the edge; each of its edges between non-external nodes is taken away
\* for G.
C7_CcdMonotone ==
  Ended =>
    \A e \in original.edges :
      ~IsExternal(is_external, e[2]) =>
        LET r == Analyze(RemoveEdges(original, {e}), is_external)
        IN  SummaryCcd(node2cd, cycles) >= SummaryCcd(r.node2cd, r.cycles)

MaxOf(S) == IF S = {} THEN 0 ELSE CHOOSE m \in S : \A x \in S : x <= m

\* __calculate_levels has run: node2level is complete.
LevelsCalculated == pc \in {"decondensation", "done", "raised"}

\* C8 as claimed: Level(u) is 0 for every node with no successors; for any
\* other node it is 1 (for a cycle representative: its member count) plus
\* the greatest level of its successors in the reduced condensed graph.
C8_LevelAsClaimed ==
  LevelsCalculated =>
    \A u \in reduced.nodes :
      node2level[u] =
        IF Successors(reduced, u) = {} THEN 0
        ELSE (IF u.id = 0 THEN Cardinality(u.nodes) ELSE 1)
             + MaxOf({node2level[v] : v \in Successors(reduced, u)})

\* C8 as amended: Level(u) is 0 for an external node only; for any other
\* node of the reduced condensed graph it is 1 (for a cycle representative:
\* its member count) plus the greatest level of its successors, or plus 0
\* when it has none: an internal node with no successors is at level 1.
C8_Level ==
  LevelsCalculated =>
    /\ DOMAIN node2level = reduced.nodes
    /\ \A u \in reduced.nodes :
         node2level[u] =
           IF IsExternal(is_external, u) THEN 0
           ELSE (IF u.id = 0 THEN Cardinality(u.nodes) ELSE 1)
                + MaxOf({node2level[v] : v \in Successors(reduced, u)})

C8_Witness ==
  /\ LevelsCalculated
  /\ \E u \in reduced.nodes :
       /\ u.id # 0 /\ ~IsExternal(is_external, u)
       /\ Successors(reduced, u) = {}
       /\ node2level[u] = 1
  /\ \E u \in reduced.nodes : IsExternal(is_external, u) /\ node2level[u] = 0
  /\ \E u \in reduced.nodes : u.id = 0 /\ Successors(reduced, u) # {}

\* The nodes reachable from u by one or more edges.
DescendantsOf(G, u) == ReachFrom(G, UNION {Successors(G, u)})

Weight(node) ==
  IF IsExternal(is_external, node) THEN 0
  ELSE IF node.id = 0 THEN Cardinality(node.nodes) ELSE 1

RECURSIVE SumWeight(_)
SumWeight(S) ==
  IF S = {} THEN 0
  ELSE LET n == CHOOSE x \in S : TRUE IN Weight(n) + SumWeight(S \ {n})

\* __transitive_reduction has run: reduced is the reduced condensed graph.
CcdStarted ==
  pc \in {"calculate_ccd", "calculate_levels", "decondensation", "done", "raised"}

\* C9: in the reduced condensed graph, whatever the order in which the nodes
\* are visited, the memoised recursion holds for every node it has seen the
\* set of all nodes reachable by one or more edges, which is its successors
\* united with the descendants of each successor, and CD(u) is weight(u)
\* plus the weights of that set, each descendant counted once.
C9_CdOverDescendants ==
  CcdStarted =>
    /\ \A u \in DOMAIN descendants :
         /\ descendants[u] = DescendantsOf(reduced, u)
         /\ \A v \in Successors(reduced, u) : v \in DOMAIN descendants
         /\ descendants[u] = Successors(reduced, u)
                             \cup UNION {descendants[v] : v \in Successors(reduced, u)}
    /\ \A u \in DOMAIN node2cd :
         /\ u \in DOMAIN descendants
         /\ node2cd[u] = Weight(u) + SumWeight(descendants[u])
    /\ pc # "calculate_ccd" => DOMAIN node2cd = reduced.nodes

\* A node with a descendant reached along two paths, counted once.
C9_Witness ==
  /\ pc = "calculate_ccd"
  /\ \E u, a, b, d \in reduced.nodes :
       /\ a # b
       /\ HasEdge(reduced, u, a) /\ HasEdge(reduced, u, b)
       /\ HasEdge(reduced, a, d) /\ HasEdge(reduced, b, d)
       /\ u \in DOMAIN node2cd /\ node2cd[u] = 4
       /\ a \notin DOMAIN node2cd

\* The input nodes a node of the condensed graph stands for.
StandsFor(node) == IF node.id = 0 THEN NodesOf(node) ELSE {node}

InternalNodes(ns) == {n \in ns : ~IsExternal(is_external, n)}

\* C10 as claimed: the CD of a node counts each external node among its
\* descendants, and external nodes are not counted in N.
C10_ExternalCounted ==
  /\ CcdStarted =>
       \A u \in DOMAIN node2cd :
         ~IsExternal(is_external, u) =>
           node2cd[u] = Cardinality(UNION {StandsFor(v) : v \in {u} \cup DescendantsOf(reduced, u)})
  /\ summary.printed => summary.components = Cardinality(InternalNodes(original.nodes))

\* C10 as amended: an external node contributes nothing to the CD of the
\* nodes that depend on it (the CD of a node counts the non-external input
\* nodes among itself and its descendants), and external nodes are not
\* counted in the node total N used for ACCD and NCCD.
C10_ExternalWeightless ==
  /\ CcdStarted =>
       \A u \in DOMAIN node2cd :
         node2cd[u] = Cardinality(InternalNodes(
                        UNION {StandsFor(v) : v \in {u} \cup DescendantsOf(reduced, u)}))
  /\ summary.printed =>
       /\ summary.components = Cardinality(InternalNodes(original.nodes))
       /\ summary.accd = Hundredths(summary.ccd, Cardinality(InternalNodes(original.nodes)))

C10_Witness ==
  /\ summary.printed
  /\ summary.components < Cardinality(original.nodes)
  /\ \E c \in DOMAIN cycles :
       /\ \E n \in original.nodes : IsExternal(is_external, n) /\ HasEdge(reduced, c, n)
       /\ node2cd[c] = NumberOfNodes(c)

RECURSIVE SumOver(_, _)
SumOver(S, f) ==
  IF S = {} THEN 0
  ELSE LET x == CHOOSE y \in S : TRUE IN f[x] + SumOver(S \ {x}, f)

\* C11: the CCD printed by print_summary is the sum over all condensed nodes
\* of weight(node) x CD(node), the weight being 1 for an ordinary node and
\* the member count for a cycle representative; so it is the sum over the
\* input nodes of the CD of the condensed node each stands in, a cycle's CD
\* charged once per member.
C11_CcdSum ==
  summary.printed =>
    /\ summary.ccd =
         SumOver(reduced.nodes,
                 [u \in reduced.nodes |->
                    (IF u.id = 0 THEN Cardinality(u.nodes) ELSE 1) * node2cd[u]])
    /\ summary.ccd =
         SumOver(original.nodes, [n \in original.nodes |-> node2cd[CondensedOf(n)]])

\* A cycle with a descendant and a dependant of the cycle, summed up.
C11_Witness ==
  /\ summary.printed
  /\ \E c \in DOMAIN cycles :
       /\ node2cd[c] > NumberOfNodes(c)
       /\ Predecessors(reduced, c) # {}

\* The constructor has returned a Graph.
Built == pc \notin {"new", "not_built"}

\* C12: for a Graph built by the constructor, every node that satisfies
\* is_external has no outgoing edge in any phase, is a member of no cycle,
\* has level 0 once levels are calculated, is still a node of the graph
\* analyze() leaves, and is not counted in the component count N.
C12_ExternalNodes ==
  /\ \A e \in digraph.edges : ~IsExternal(is_external, e[1])
  /\ Built =>
       \A n \in original.nodes :
         IsExternal(is_external, n) =>
           /\ n \notin DOMAIN node2cycle
           /\ \A c \in DOMAIN cycles : n \notin NodesOf(c)
           /\ LevelsCalculated => n \in DOMAIN node2level /\ node2level[n] = 0
           /\ n \in digraph.nodes
           /\ summary.printed =>
                summary.components <= Cardinality(original.nodes \ {n})
  /\ summary.printed =>
       summary.components = Cardinality(InternalNodes(original.nodes))

\* A built Graph with a cycle that depends on an external node, analysed and
\* summed up.
C12_Witness ==
  /\ summary.printed
  /\ \E c \in DOMAIN cycles :
       \E n \in NodesOf(c), x \in original.nodes :
         IsExternal(is_external, x) /\ HasEdge(digraph, n, x)
  /\ nodes # {} /\ pc = "done"

\* C13: no graph the constructor builds holds an edge from a node to itself,
\* in any phase from construction to the final decondensed graph, and no
\* reported cycle has a single node or a self-edge: an item that lists
\* itself among its dependencies produces neither.
C13_NoSelfEdge ==
  /\ NumberOfSelfloops(digraph) = 0
  /\ NumberOfSelfloops(original) = 0
  /\ NumberOfSelfloops(reduced) = 0
  /\ \A c \in DOMAIN cycles :
       /\ NumberOfNodes(c) >= 2
       /\ \A e \in c.edges : e[1] # e[2]
  /\ \A f \in DOMAIN files : NumberOfSelfloops(files[f]) = 0

\* The constructor has come to an item that lists itself.
C13_Witness ==
  /\ pc = "not_built"
  /\ \E n \in nodes :
       /\ ~IsExternal(is_external, n)
       /\ n \in dependencies[n]
       /\ n \in digraph.nodes
       /\ Successors(digraph, n) # {}

\* __condensation has numbered the cycles.
CyclesIndexed ==
  pc \in {"transitive_reduction", "calculate_ccd", "calculate_levels", "decondensation",
          "done", "raised"}

\* C14: after condensation the cycle indices are exactly 0..k-1 for k cycles,
\* each used once, in ascending order of the smallest member of each cycle,
\* the members compared as strings; print_cycles lists the cycles in
\* increasing index order.
C14_CycleIndices ==
  /\ CyclesIndexed =>
       /\ DOMAIN cycle2index = DOMAIN cycles
       /\ {cycle2index[c] : c \in DOMAIN cycles} = 0..(Cardinality(DOMAIN cycles) - 1)
       /\ \A c, d \in DOMAIN cycles :
            /\ c # d => cycle2index[c] # cycle2index[d]
            /\ cycle2index[c] < cycle2index[d] <=>
                 \E m \in c.nodes : \A n \in d.nodes : StrLess(Str(m), Str(n))
  /\ report.kind = "cycles" =>
       LET listed == SelectSeq(report.lines, LAMBDA l : l.tag = "cycle nodes")
       IN  /\ Len(listed) = Cardinality(DOMAIN cycles)
           /\ \A i \in 1..Len(listed) :
                /\ listed[i].index = i - 1
                /\ \E c \in DOMAIN cycles :
                     /\ cycle2index[c] = i - 1
                     /\ {listed[i].members[j] : j \in 1..Len(listed[i].members)} = c.nodes

\* Two cycles printed: the one that holds "10" and "11" is number 0, before
\* the one whose smallest member is "2".
C14_Witness ==
  /\ report.kind = "cycles"
  /\ \E c, d \in DOMAIN cycles :
       /\ c.nodes = {10, 11} /\ cycle2index[c] = 0
       /\ 2 \in d.nodes /\ cycle2index[d] = 1
  /\ Len(report.lines) = 8

\* C15: the summary reports ACCD = CCD / N (to two decimals), where N is the
\* number of non-external nodes of the final graph, every member of a cycle
\* counted individually; N is not the number of condensed nodes.
C15_Accd ==
  summary.printed =>
    LET N         == Cardinality({x \in digraph.nodes : ~IsExternal(is_external, x)})
        condensed == {u \in reduced.nodes : ~IsExternal(is_external, u)}
    IN  /\ summary.components = N
        /\ N = Cardinality(UNION {StandsFor(u) : u \in condensed})
        /\ DOMAIN cycles # {} => N > Cardinality(condensed)
        /\ 2 * (summary.accd * N - 100 * summary.ccd) <= N
        /\ 2 * (100 * summary.ccd - summary.accd * N) < N

\* A summary of a graph with a cycle and an external node, whose ACCD is not
\* a whole number.
C15_Witness ==
  /\ summary.printed
  /\ DOMAIN cycles # {}
  /\ \E x \in digraph.nodes : IsExternal(is_external, x)
  /\ summary.accd % 100 # 0

\* C16: a graph with zero nodes is not an error: analyze() is a no-op on it
\* and the cycle, level and summary reporting for it completes without
\* raising.
C16_EmptyGraph ==
  (Built /\ nodes = {} /\ original.nodes = {}) =>
    /\ digraph = EmptyGraph
    /\ pc # "raised"
    /\ ~report.raised
    /\ ~summary.raised
    /\ ~summary.printed

\* C17: when the number N of non-external nodes is at most 1, the summary
\* computation divides by no zero and reports ACCD and NCCD as CCD itself.
C17_TrivialMetrics ==
  (pc = "done" /\ NumNodes(digraph, is_external) <= 1) =>
    /\ ~summary.raised
    /\ summary.printed => /\ summary.accd = 100 * summary.ccd
                          /\ summary.nccd = 100 * summary.ccd

\* C18: building a Graph from items of which one lists itself among its
\* dependencies completes without error; the self-dependency is skipped and
\* the graph holds every other node and edge.
C18_SelfDependencySkipped ==
  (\A n \in nodes : ~IsExternal(is_external, n)) =>
    /\ pc # "not_built"
    /\ Built =>
         /\ original.nodes = nodes \cup UNION {dependencies[n] : n \in nodes}
         /\ original.edges =
              UNION {{<<n, d>> : d \in dependencies[n] \ {n}} : n \in nodes}

\* C19: reporting is read-only: after analyze() any call of print_cycles,
\* print_levels (reduced_dependencies None, True or False) or print_summary
\* leaves digraph, cycles, cycle2index, node2cycle, node2cd and node2level
\* unchanged, and a report that is repeated prints what it printed before.
C19_ReportsReadOnly ==
  [][pc = "done" =>
       /\ UNCHANGED <<digraph, cycles, cycle2index, node2cycle, node2cd, node2level>>
       /\ (report'.kind = report.kind /\ report'.arg = report.arg) => report' = report
       /\ summary # NoSummary => summary' = summary]_vars

\* Cycles, levels with the unreduced dependencies and a summary have all
\* been printed for a graph with a cycle.
C19_Witness ==
  /\ report.kind = "levels" /\ report.arg = "False"
  /\ summary.printed
  /\ DOMAIN cycles # {}
  /\ \E i \in 1..Len(report.lines) :
       report.lines[i].tag = "dependency" /\ report.lines[i].index >= 0

\* The sub-graph of the input graph over the nodes that are in a cycle.
CyclicSubgraph ==
  LET cyclic == UNION {NodesOf(c) : c \in DOMAIN cycles}
  IN  [nodes |-> cyclic,
       edges |-> {e \in original.edges : e[1] \in cyclic /\ e[2] \in cyclic}]

ReachableByLongerPath(G, u, v) ==
  \E w \in Successors(G, u) \ {v} : v \in ReachFrom(G, {w})

\* C21: on the acyclic condensed graph __transitive_reduction removes a
\* direct edge u -> v if and only if v is reachable from another direct
\* successor of u in the graph as it was before reduction; afterwards no
\* remaining edge has its target reachable by a path of length 2 or more;
\* and in every order of visiting, a node that has been visited has exactly
\* those edges left and a node not yet visited has all of its edges.
C21_TransitiveReduction ==
  /\ pc = "transitive_reduction" =>
       /\ digraph.nodes = condensed_digraph.nodes
       /\ \A u \in digraph.nodes :
            Successors(digraph, u) =
              IF u \in todo THEN Successors(condensed_digraph, u)
              ELSE {v \in Successors(condensed_digraph, u) :
                      ~ReachableByLongerPath(condensed_digraph, u, v)}
  /\ (CcdStarted /\ reduced.nodes # {}) =>
       /\ reduced.nodes = condensed_digraph.nodes
       /\ reduced.edges \subseteq condensed_digraph.edges
       /\ \A e \in condensed_digraph.edges :
            e \notin reduced.edges <=> ReachableByLongerPath(condensed_digraph, e[1], e[2])
       /\ \A e \in reduced.edges : ~ReachableByLongerPath(reduced, e[1], e[2])

\* In the middle of the reduction: one node has lost an edge, another, not
\* yet visited, still has an edge that is to go; the second reaches the
\* first.
C21_Witness ==
  /\ pc = "transitive_reduction"
  /\ \E u, w \in digraph.nodes :
       /\ u \notin todo /\ w \in todo
       /\ Successors(digraph, u) # Successors(condensed_digraph, u)
       /\ \E v \in Successors(digraph, w) : ReachableByLongerPath(condensed_digraph, w, v)
       /\ u \in ReachFrom(digraph, Successors(digraph, w))

\* __condensation is over and __decondensation has not started.
IsCondensed == pc \in {"transitive_reduction", "calculate_ccd", "calculate_levels"}

\* The edges of the input graph between different condensed nodes.
CondensedEdges ==
  {<<CondensedOf(e[1]), CondensedOf(e[2])>> :
     e \in {f \in original.edges : CondensedOf(f[1]) # CondensedOf(f[2])}}

\* C22: after __condensation and until __decondensation starts, the digraph
\* is acyclic, its nodes are exactly the input nodes outside every cycle and
\* one representative per cycle, and right after condensation there is an
\* edge X -> Y between two distinct condensed nodes if and only if the input
\* graph has an edge from a node standing in X to a node standing in Y, with
\* no self-edge; for every order in which the cycles are condensed.
C22_CondensedGraph ==
  IsCondensed =>
    /\ IsDirectedAcyclicGraph(digraph)
    /\ digraph.nodes = {n \in original.nodes : n \notin DOMAIN node2cycle} \cup DOMAIN cycles
    /\ condensed_digraph.nodes = digraph.nodes
    /\ condensed_digraph.edges = CondensedEdges
    /\ NumberOfSelfloops(condensed_digraph) = 0

(***************************************************************************)
(* C23 (as stated).  After condensation the incoming boundary edges        *)
(* recorded for a cycle are exactly the edges of the input graph from a    *)
(* node outside the cycle to a member, the outgoing ones exactly the edges *)
(* of the input graph from a member to a node outside: both endpoints of   *)
(* every recorded edge are input nodes.                                    *)
(***************************************************************************)
IncomingEdges(c) ==
  {e \in original.edges : e[1] \notin NodesOf(c) /\ e[2] \in NodesOf(c)}

OutgoingEdges(c) ==
  {e \in original.edges : e[1] \in NodesOf(c) /\ e[2] \notin NodesOf(c)}

RecordedForms(e, k) ==
  IF e[k] \in DOMAIN node2cycle
  THEN {e, [e EXCEPT ![k] = node2cycle[e[k]]]}
  ELSE {e}

HasLevel(n) == CondensedOf(n) \in DOMAIN node2level

SameCycle(u, v) ==
  u \in DOMAIN node2cycle /\ v \in DOMAIN node2cycle /\ node2cycle[u] = node2cycle[v]

Layered ==
  /\ \A n \in original.nodes : HasLevel(n)
  /\ \A e \in original.edges :
       HasLevel(e[1]) /\ HasLevel(e[2]) =>
         IF SameCycle(e[1], e[2])
         THEN get_level(node2cycle, node2level, e[1]) = get_level(node2cycle, node2level, e[2])
         ELSE get_level(node2cycle, node2level, e[1]) > get_level(node2cycle, node2level, e[2])
  /\ \A n \in DOMAIN node2cycle :
       HasLevel(n) => get_level(node2cycle, node2level, n) = node2level[node2cycle[n]]
  /\ \A n \in original.nodes \ DOMAIN node2cycle :
       /\ HasLevel(n)
       /\ ~IsExternal(is_external, n)
       /\ \A v \in Successors(original, n) : IsExternal(is_external, v)
       => get_level(node2cycle, node2level, n) = 1

C24_LayeringInvariant == Ended => Layered

(***************************************************************************)
(* C25.  Once the CDs are calculated, every condensed node (an ordinary    *)
(* node or a cycle's representative) has a CD stored, and it is the number *)
(* of non-external input nodes reachable in the unreduced input graph from *)
(* the nodes it stands for, these nodes included; so the CCD summed from   *)
(* the stored CDs is the CCD of the input graph: the sum, over its         *)
(* non-external nodes, of the number of non-external nodes each reaches.   *)
(***************************************************************************)
CcdCalculated == pc \in {"calculate_levels", "decondensation", "done", "raised"}

InputCd(ns) == Cardinality(InternalNodes(ReachFrom(original, ns)))

InputCcd ==
  SumOver(InternalNodes(original.nodes), [n \in original.nodes |-> InputCd({n})])

CdOfInputGraph ==
  /\ \A u \in DOMAIN node2cd : node2cd[u] = InputCd(StandsFor(u))
  /\ \A n \in original.nodes : CondensedOf(n) \in DOMAIN node2cd
  /\ SummaryCcd(node2cd, cycles) = InputCcd

C25_CdOfInputGraph == CcdCalculated => CdOfInputGraph

(***************************************************************************)
(* C26.  analyze() invoked a second time on the same Graph, with or        *)
(* without cycles, completes and leaves the same final graph, the same     *)
(* cycles and cycle indices and the same CD and level values as the first  *)
(* invocation.                                                             *)
(***************************************************************************)
C26_SecondAnalyze ==
  (first.called /\ Ended) =>
    /\ pc = "done"
    /\ digraph = first.digraph
    /\ cycles = first.cycles
    /\ cycle2index = first.cycle2index
    /\ node2cd = first.node2cd
    /\ node2level = first.node2level

(***************************************************************************)
(* C27.  analyze() on a Graph whose digraph contains a self-loop aborts at *)
(* its first assertion, before condensation starts: it ends raised, with   *)
(* digraph, cycles, cycle2index, node2cycle, node2cd and node2level as     *)
(* they were, and nothing was condensed, reduced or summarised.            *)
(***************************************************************************)
HasSelfloop(G) == \E e \in G.edges : e[1] = e[2]

C27_FailFast ==
  (HasSelfloop(original) /\ pc # "constructed") =>
    /\ pc = "raised"
    /\ digraph = original
    /\ cycles = EmptyMap
    /\ cycle2index = EmptyMap
    /\ node2cycle = EmptyMap
    /\ node2cd = EmptyMap
    /\ node2level = EmptyMap
    /\ condensed_digraph = EmptyGraph
    /\ reduced = EmptyGraph
    /\ ~summary.printed

\* analyze() has raised on a graph with a self-loop and another edge.
C27_Witness ==
  /\ pc = "raised"
  /\ HasSelfloop(original)
  /\ \E e \in original.edges : e[1] # e[2]

(***************************************************************************)
(* C28.  A print_levels report that completes has one header per level for *)
(* every integer from 0 up to the maximum level, in increasing order, also *)
(* for a level that holds no node; it lists every node of the final graph  *)
(* exactly once, under the header of its level; within a level the entries *)
(* are in ascending order of their strings, a cycle placed by the smallest *)
(* string of its members; the members of a cycle follow one another with   *)
(* no other node between them, in ascending order of their strings, each   *)
(* tagged with the cycle's index, a node outside any cycle untagged.       *)
(***************************************************************************)
LevelsPrinted == report.kind = "levels" /\ ~report.raised

LinesTagged(tag) == {i \in 1..Len(report.lines) : report.lines[i].tag = tag}

\* The level of the last header printed before line i.
HeaderOf(i) ==
  report.lines[MaxOf({j \in LinesTagged("level") : j < i})].number

\* The string that places the entry of n: its own, or the smallest string
\* of the members of its cycle.
EntryKey(n) ==
  IF n \in DOMAIN node2cycle
  THEN MinStr({Str(x) : x \in node2cycle[n].nodes})
  ELSE Str(n.id)

C28_PrintLevels ==
  LevelsPrinted =>
    LET headers == LinesTagged("level")
        listed  == LinesTagged("node")
        top     == MaxOf({get_level(node2cycle, node2level, n) : n \in digraph.nodes})
    IN  /\ Cardinality(headers) = top + 1
        /\ \A i \in headers :
             report.lines[i].number = Cardinality({j \in headers : j < i})
        /\ report.lines[2].tag = "level(s)" /\ report.lines[2].number = top
        /\ \A i \in listed : Item(report.lines[i].node) \in digraph.nodes
        /\ \A n \in digraph.nodes :
             /\ Cardinality({i \in listed : report.lines[i].node = n.id}) = 1
             /\ \A i \in listed :
                  report.lines[i].node = n.id =>
                    /\ \E j \in headers : j < i
                    /\ HeaderOf(i) = get_level(node2cycle, node2level, n)
                    /\ report.lines[i].index =
                         IF n \in DOMAIN node2cycle THEN cycle2index[node2cycle[n]] ELSE -1
        /\ \A i, j \in listed :
             LET u == Item(report.lines[i].node)
                 v == Item(report.lines[j].node)
             IN  /\ (i < j /\ SameCycle(u, v)) =>
                       /\ StrLess(Str(u.id), Str(v.id))
                       /\ \A k \in listed :
                            (i < k /\ k < j) =>
                              SameCycle(u, Item(report.lines[k].node))
                 /\ (i < j /\ ~SameCycle(u, v) /\ HeaderOf(i) = HeaderOf(j)) =>
                       StrLess(EntryKey(u), EntryKey(v))

\* A report with dependencies of a graph with two cycles, one placed above
\* the other, and two levels that hold no node.
C28_Witness ==
  /\ LevelsPrinted
  /\ report.arg = "True"
  /\ Cardinality(DOMAIN cycles) = 2
  /\ Cardinality({l \in 0..MaxLevel(node2level) :
                    \A n \in digraph.nodes : get_level(node2cycle, node2level, n) # l}) >= 2

(***************************************************************************)
(* C29.  make_dag(digraph, key_node) of the earlier revision: self-loop    *)
(* edges are stripped; afterwards the graph is acyclic; every node outside *)
(* a cycle is kept; of each strongly connected component of two or more    *)
(* nodes exactly one node remains, a member with the least key_node when a *)
(* key is given; that node has an edge to (from) a node outside the cycle  *)
(* if and only if some member of the cycle had an edge to (from) that node *)
(* or a node it stands for; node2cycle maps every member of a cycle to the *)
(* kept node of its cycle and every other node to None.                    *)
(***************************************************************************)
\* The strongly connected component of n in the graph make_dag was given.
ComponentOf(n) == {v \in original.nodes : MutuallyReachable(original, n, v)}

\* The node of the result that stands for the input node n.
KeptFor(n) == IF node2cycle[n] = None THEN n ELSE node2cycle[n]

C29_MakeDag ==
  pc = "dag" =>
    /\ NumberOfSelfloops(digraph) = 0
    /\ IsDirectedAcyclicGraph(digraph)
    /\ digraph.nodes \subseteq original.nodes
    /\ DOMAIN node2cycle = original.nodes
    /\ \A n \in original.nodes :
         IF Cardinality(ComponentOf(n)) = 1
         THEN /\ n \in digraph.nodes
              /\ node2cycle[n] = None
         ELSE /\ Cardinality(ComponentOf(n) \cap digraph.nodes) = 1
              /\ node2cycle[n] \in ComponentOf(n) \cap digraph.nodes
              /\ key_node # NoKey =>
                   \A m \in ComponentOf(n) : key_node[node2cycle[n].id] <= key_node[m.id]
              /\ \A y \in digraph.nodes \ ComponentOf(n) :
                   /\ HasEdge(digraph, node2cycle[n], y) <=>
                        \E e \in original.edges : e[1] \in ComponentOf(n) /\ KeptFor(e[2]) = y
                   /\ HasEdge(digraph, y, node2cycle[n]) <=>
                        \E e \in original.edges : KeptFor(e[1]) = y /\ e[2] \in ComponentOf(n)

\* make_dag has run on a graph with a self-loop and a cycle whose kept node
\* got an edge that only another member had.
C29_Witness ==
  /\ pc = "dag"
  /\ key_node # NoKey
  /\ SelfloopEdges(original) # {}
  /\ \E m \in DOMAIN cycles : \E y \in digraph.nodes :
       /\ HasEdge(digraph, m, y)
       /\ ~HasEdge(original, m, y)

(***************************************************************************)
(* C30.  layering_dag of the earlier revision on an acyclic graph: the     *)
(* layers partition the node set; layer 0 is exactly the set of nodes      *)
(* without successors; the layer number of any other node is 1 + the       *)
(* greatest layer number of its successors; an edge is removed, and listed *)
(* in redundant_edges, if and only if its target stays reachable from its  *)
(* source without it; every other edge is left in place; an edge between   *)
(* adjacent layers is never removed.                                       *)
(***************************************************************************)
StaysReachable(G, e) == e[2] \in ReachFrom(RemoveEdges(G, {e}), {e[1]})

C30_LayeringDag ==
  pc = "layered" =>
    LET G == condensed_digraph
    IN  /\ UNION {layers[i] : i \in DOMAIN layers} = G.nodes
        /\ \A i, j \in DOMAIN layers : i # j => layers[i] \cap layers[j] = {}
        /\ \A i \in DOMAIN layers : layers[i] = {n \in G.nodes : layer_no[n] = i - 1}
        /\ DOMAIN layer_no = G.nodes
        /\ \A n \in G.nodes :
             layer_no[n] =
               IF Successors(G, n) = {} THEN 0
               ELSE 1 + MaxOf({layer_no[x] : x \in Successors(G, n)})
        /\ redundant_edges = {e \in G.edges : StaysReachable(G, e)}
        /\ digraph.nodes = G.nodes
        /\ digraph.edges = G.edges \ redundant_edges
        /\ \A e \in G.edges :
             layer_no[e[1]] = layer_no[e[2]] + 1 => e \in digraph.edges

\* layering_dag has removed an edge that skips a layer and kept another one
\* that skips a layer.
C30_Witness ==
  /\ pc = "layered"
  /\ redundant_edges # {}
  /\ \E e \in digraph.edges : layer_no[e[1]] > layer_no[e[2]] + 1
  /\ Len(layers) >= 3

====
